---- MODULE Spec2Model ----
(***************************************************************************)
(* A model of cstock's trading core: the OrderMetric trade ledger          *)
(* (src/cstock/order_metric.py), the RiskManager                           *)
(* (src/cstock/risk_manager.py) and the per-bar decision loop of the       *)
(* strategies built on BaseStrategy (src/cstock/strategies).               *)
(*                                                                         *)
(* Numbers.  Prices, sizes, commissions and cash are integers.  A Python   *)
(* float that is a quotient (a win rate, a drawdown, an average) is kept   *)
(* as the reduced fraction [n, d] with d > 0, so two of them are equal     *)
(* exactly when the quotients are.  Percentages (0.1, 0.3) are integers    *)
(* out of 100 and every comparison is cross-multiplied.                    *)
(*                                                                         *)
(* A Python dict is a function whose DOMAIN is the set of keys; where the  *)
(* code depends on the iteration order of a dict, the order of insertion   *)
(* of the keys is kept beside it as a sequence.                            *)
(***************************************************************************)
EXTENDS Integers, Sequences, FiniteSets, TLC

VARIABLES
    om,        \* the OrderMetric object: a record of its fields
    om_last,   \* the last ledger call: its name, its symbol, its arguments, and
               \* whether the symbol had an active trade when it was made
    rm,        \* the RiskManager object: a record of its fields
    rm_last,   \* the last RiskManager call: its name, arguments and result
    overrides, \* the threshold prices update_position_params has written for a
               \* symbol since its add_position, None for a price it has not
    broker,    \* what the broker answers: getcash(), getvalue(), getposition(d).size
    close,     \* data.close[0] of each data feed
    day,       \* the sizing decisions since the last reset_daily_cash: their
               \* number and the cost (size x price) of the shares handed out
    st,        \* the strategy object: its class and the fields of BaseStrategy
    pc,        \* where the strategy is in next(): idle between two bars, in the
               \* loop of check_exit_signals, or in the loop of its own signals
    pending,   \* the orders submitted to the broker and not yet notified as
               \* completed, canceled or rejected, in order of submission
    clock,     \* datetime.date(0) of the current bar and len(self)
    st_last,   \* the last step of the strategy: its name and, per symbol, the
               \* conditions it evaluated and the sizes it ordered
    in_next,   \* the current call of next(): the feeds whose exit conditions it
               \* has evaluated, those it has sold on an exit, and the cash the
               \* broker held when it began
    dt,        \* the long/short DualThrustStrategy: the strategy object, the
               \* position, the order at the broker, the time of the last bar
    dt_last    \* the last step of that strategy, and what it has seen so far

ledgerVars == <<om, om_last>>

riskVars == <<rm, rm_last, overrides, broker, close, day>>

strategyVars == <<st, pc, pending, clock, st_last, in_next>>

thrustVars == <<dt, dt_last>>

vars == <<om, om_last, rm, rm_last, overrides, broker, close, day, st, pc, pending, clock, st_last, in_next, dt, dt_last>>

----------------------------------------------------------------------------
(* Arithmetic helpers *)

Abs(x) == IF x < 0 THEN -x ELSE x

Min(a, b) == IF a <= b THEN a ELSE b

Max(a, b) == IF a >= b THEN a ELSE b

RECURSIVE GCD(_, _)
GCD(a, b) == IF b = 0 THEN a ELSE GCD(b, a % b)

\* The quotient n / d (d # 0) as a reduced fraction with a positive denominator.
Frac(n, d) ==
    LET s == IF d < 0 THEN -1 ELSE 1
        g == GCD(Abs(n), Abs(d))
    IN  [n |-> (s * n) \div g, d |-> (s * d) \div g]

FracZero == [n |-> 0, d |-> 1]

FracLeq(x, y) == x.n * y.d <= y.n * x.d

FracMax(x, y) == IF FracLeq(x, y) THEN y ELSE x

RECURSIVE SeqSum(_)
SeqSum(s) == IF s = <<>> THEN 0 ELSE Head(s) + SeqSum(Tail(s))

\* The dict f with key k set to v, and with key k deleted.
DictSet(f, k, v) == (k :> v) @@ f

DictDel(f, k) == [x \in (DOMAIN f) \ {k} |-> f[x]]

EmptyDict == [x \in {} |-> 0]

----------------------------------------------------------------------------
(* Bounds and input sets of the ledger *)

Symbols == {"A", "B"}

\* The trade log is capped at MaxTrades records.
MaxTrades == 2

\* Hours in a day: datetimes are whole hours since an epoch.
HoursPerDay == 24

\* The calls of on_trade_entry that are explored, for each symbol:
\* one long trade of 1 share without commission, one short trade of 2 shares
\* with commission 1, both entered at price 100 at hour 0.
EntryCalls ==
    {[entry_time |-> 0, entry_price |-> 100, size |-> 1, direction |-> "buy",
      commission |-> 0],
     [entry_time |-> 0, entry_price |-> 100, size |-> 2, direction |-> "sell",
      commission |-> 1]}

\* The calls of on_trade_exit that are explored, for each symbol: at the entry
\* price, above it and below it; with and without commission; 20 and 36 hours
\* after the entry; with each exit type of the histogram and one outside it.
ExitCalls ==
    {[exit_time |-> 20, exit_price |-> 100, commission |-> 0, exit_type |-> "signal"],
     [exit_time |-> 36, exit_price |-> 110, commission |-> 1,
      exit_type |-> "take_profit"],
     [exit_time |-> 36, exit_price |-> 90, commission |-> 0,
      exit_type |-> "stop_loss"],
     [exit_time |-> 20, exit_price |-> 110, commission |-> 1, exit_type |-> "manual"]}

----------------------------------------------------------------------------
(* OrderMetric *)

\* TradeRecord.exit_time before the exit: None.
NoneTime == -1

TradeRecord(symbol, entry_time, entry_price, size, direction, commission) ==
    [symbol |-> symbol, entry_time |-> entry_time, entry_price |-> entry_price,
     size |-> size, direction |-> direction, commission |-> commission,
     exit_time |-> NoneTime, exit_price |-> 0, pnl |-> 0, exit_type |-> ""]

\* OrderMetric.__init__
OrderMetricInit ==
    [trades |-> <<>>,
     active_trades |-> EmptyDict,
     total_trades |-> 0,
     winning_trades |-> 0,
     losing_trades |-> 0,
     total_pnl |-> 0,
     max_profit |-> 0,
     max_loss |-> 0,
     total_commission |-> 0,
     stock_metrics |-> EmptyDict,
     stock_stats |-> EmptyDict,
     stock_stats_order |-> <<>>,
     holding_periods |-> <<>>,
     exit_types |-> [t \in {"stop_loss", "take_profit", "signal"} |-> 0]]

\* Mutant of OnTradeEntry: the entry commission is booked on entry.
OnTradeEntry_BooksCommission(o, symbol, entry_time, entry_price, size, direction, commission) ==
    LET trade == TradeRecord(symbol, entry_time, entry_price, size, direction,
                             commission)
    IN  [o EXCEPT
           !.active_trades = DictSet(@, symbol, trade),
           !.total_commission = @ + commission,
           !.stock_metrics =
               IF symbol \notin DOMAIN @
               THEN DictSet(@, symbol,
                            [highest_value |-> entry_price * size,
                             max_drawdown |-> FracZero,
                             current_drawdown |-> FracZero])
               ELSE @]

\* OrderMetric.on_trade_entry
OnTradeEntry(o, symbol, entry_time, entry_price, size, direction, commission) ==
    LET trade == TradeRecord(symbol, entry_time, entry_price, size, direction,
                             commission)
    IN  [o EXCEPT
           !.active_trades = DictSet(@, symbol, trade),
           !.stock_metrics =
               IF symbol \notin DOMAIN @
               THEN DictSet(@, symbol,
                            [highest_value |-> entry_price * size,
                             max_drawdown |-> FracZero,
                             current_drawdown |-> FracZero])
               ELSE @]

\* on_trade_exit, lines 77-95: the drawdown record of the symbol.
ExitStockMetrics(o, symbol, exit_price) ==
    IF symbol \in DOMAIN o.stock_metrics
    THEN LET current_value == exit_price * o.active_trades[symbol].size
             metrics == o.stock_metrics[symbol]
             highest == Max(metrics.highest_value, current_value)
             current_drawdown == Frac((highest - current_value) * 100, highest)
         IN  DictSet(o.stock_metrics, symbol,
                     [highest_value |-> 0,
                      max_drawdown |->
                          IF highest > 0
                          THEN FracMax(metrics.max_drawdown, current_drawdown)
                          ELSE metrics.max_drawdown,
                      current_drawdown |-> FracZero])
    ELSE o.stock_metrics

\* Mutant of TradePnl: a short trade is valued as a long one.
TradePnl_AlwaysLong(direction, entry_price, exit_price, size, commission) ==
    (exit_price - entry_price) * size - commission

\* on_trade_exit, lines 103-107: the profit of the finished trade.
TradePnl(direction, entry_price, exit_price, size, commission) ==
    IF direction = "buy"
    THEN (exit_price - entry_price) * size - commission
    ELSE (entry_price - exit_price) * size - commission

\* Mutant of ExitTrade: the exit type is left as the entry wrote it.
ExitTrade_KeepsExitType(trade, exit_time, exit_price, commission, exit_type) ==
    LET total == trade.commission + commission
    IN  [trade EXCEPT
           !.exit_time = exit_time,
           !.exit_price = exit_price,
           !.commission = total,
           !.pnl = TradePnl(trade.direction, trade.entry_price, exit_price,
                            trade.size, total)]

\* on_trade_exit, lines 97-107: the finalized record.
ExitTrade(trade, exit_time, exit_price, commission, exit_type) ==
    LET total == trade.commission + commission
    IN  [trade EXCEPT
           !.exit_time = exit_time,
           !.exit_price = exit_price,
           !.commission = total,
           !.exit_type = exit_type,
           !.pnl = TradePnl(trade.direction, trade.entry_price, exit_price,
                            trade.size, total)]

\* Mutant of IsWinning: a trade without profit or loss counts as a win.
IsWinning_ZeroWins(pnl) == pnl >= 0

\* on_trade_exit, lines 126-131 and 139-144: a trade wins iff pnl > 0.
IsWinning(pnl) == pnl > 0

\* Mutant of MaxProfitAfter: the last profit replaces the largest one.
MaxProfitAfter_LastProfit(max_profit, pnl) ==
    IF IsWinning(pnl) THEN pnl ELSE max_profit

\* on_trade_exit, lines 126-128 and 139-141: the largest single profit.
MaxProfitAfter(max_profit, pnl) ==
    IF IsWinning(pnl) THEN Max(max_profit, pnl) ELSE max_profit

\* on_trade_exit, lines 129-131 and 142-144: the largest single loss.
MaxLossAfter(max_loss, pnl) ==
    IF IsWinning(pnl) THEN max_loss ELSE Min(max_loss, pnl)

\* on_trade_exit, lines 110-119: the statistics of a symbol without a closed trade.
NewStats ==
    [total_trades |-> 0, winning_trades |-> 0, losing_trades |-> 0,
     total_pnl |-> 0, max_profit |-> 0, max_loss |-> 0, total_commission |-> 0]

\* Mutant of UpdateStats: the symbol's trade count is not incremented.
UpdateStats_NoCount(stats, trade) ==
    [total_trades |-> stats.total_trades,
     total_pnl |-> stats.total_pnl + trade.pnl,
     total_commission |-> stats.total_commission + trade.commission,
     winning_trades |->
         stats.winning_trades + (IF IsWinning(trade.pnl) THEN 1 ELSE 0),
     losing_trades |->
         stats.losing_trades + (IF IsWinning(trade.pnl) THEN 0 ELSE 1),
     max_profit |-> MaxProfitAfter(stats.max_profit, trade.pnl),
     max_loss |-> MaxLossAfter(stats.max_loss, trade.pnl)]

\* on_trade_exit, lines 133-144: one symbol's statistics after the trade.
UpdateStats(stats, trade) ==
    [total_trades |-> stats.total_trades + 1,
     total_pnl |-> stats.total_pnl + trade.pnl,
     total_commission |-> stats.total_commission + trade.commission,
     winning_trades |->
         stats.winning_trades + (IF IsWinning(trade.pnl) THEN 1 ELSE 0),
     losing_trades |->
         stats.losing_trades + (IF IsWinning(trade.pnl) THEN 0 ELSE 1),
     max_profit |-> MaxProfitAfter(stats.max_profit, trade.pnl),
     max_loss |-> MaxLossAfter(stats.max_loss, trade.pnl)]

\* Mutant of HoldingDays: the difference is rounded to the nearest day.
HoldingDays_Nearest(entry_time, exit_time) == (exit_time - entry_time + HoursPerDay \div 2) \div HoursPerDay

\* on_trade_exit, line 147: timedelta.days, the floor of the difference in days.
HoldingDays(entry_time, exit_time) == (exit_time - entry_time) \div HoursPerDay

\* Mutant of OnTradeExit: an exit without an active trade is counted by type.
OnTradeExit_CountsUnknownExit(o, symbol, exit_time, exit_price, commission, exit_type) ==
    IF symbol \notin DOMAIN o.active_trades
    THEN [o EXCEPT !.exit_types =
                IF exit_type \in DOMAIN @ THEN [@ EXCEPT ![exit_type] = @ + 1] ELSE @]
    ELSE
    LET trade == ExitTrade(o.active_trades[symbol], exit_time, exit_price,
                           commission, exit_type)
        fresh == symbol \notin DOMAIN o.stock_stats
        stats == IF fresh THEN NewStats ELSE o.stock_stats[symbol]
    IN  [trades |-> Append(o.trades, trade),
         active_trades |-> DictDel(o.active_trades, symbol),
         total_trades |-> o.total_trades + 1,
         total_pnl |-> o.total_pnl + trade.pnl,
         total_commission |-> o.total_commission + trade.commission,
         winning_trades |->
             o.winning_trades + (IF IsWinning(trade.pnl) THEN 1 ELSE 0),
         losing_trades |->
             o.losing_trades + (IF IsWinning(trade.pnl) THEN 0 ELSE 1),
         max_profit |-> MaxProfitAfter(o.max_profit, trade.pnl),
         max_loss |-> MaxLossAfter(o.max_loss, trade.pnl),
         stock_metrics |-> ExitStockMetrics(o, symbol, exit_price),
         stock_stats |-> DictSet(o.stock_stats, symbol, UpdateStats(stats, trade)),
         stock_stats_order |->
             IF fresh THEN Append(o.stock_stats_order, symbol)
             ELSE o.stock_stats_order,
         holding_periods |->
             Append(o.holding_periods, HoldingDays(trade.entry_time, exit_time)),
         exit_types |->
             IF exit_type \in DOMAIN o.exit_types
             THEN [o.exit_types EXCEPT ![exit_type] = @ + 1]
             ELSE o.exit_types]

\* OrderMetric.on_trade_exit
OnTradeExit(o, symbol, exit_time, exit_price, commission, exit_type) ==
    IF symbol \notin DOMAIN o.active_trades
    THEN o
    ELSE
    LET trade == ExitTrade(o.active_trades[symbol], exit_time, exit_price,
                           commission, exit_type)
        fresh == symbol \notin DOMAIN o.stock_stats
        stats == IF fresh THEN NewStats ELSE o.stock_stats[symbol]
    IN  [trades |-> Append(o.trades, trade),
         active_trades |-> DictDel(o.active_trades, symbol),
         total_trades |-> o.total_trades + 1,
         total_pnl |-> o.total_pnl + trade.pnl,
         total_commission |-> o.total_commission + trade.commission,
         winning_trades |->
             o.winning_trades + (IF IsWinning(trade.pnl) THEN 1 ELSE 0),
         losing_trades |->
             o.losing_trades + (IF IsWinning(trade.pnl) THEN 0 ELSE 1),
         max_profit |-> MaxProfitAfter(o.max_profit, trade.pnl),
         max_loss |-> MaxLossAfter(o.max_loss, trade.pnl),
         stock_metrics |-> ExitStockMetrics(o, symbol, exit_price),
         stock_stats |-> DictSet(o.stock_stats, symbol, UpdateStats(stats, trade)),
         stock_stats_order |->
             IF fresh THEN Append(o.stock_stats_order, symbol)
             ELSE o.stock_stats_order,
         holding_periods |->
             Append(o.holding_periods, HoldingDays(trade.entry_time, exit_time)),
         exit_types |->
             IF exit_type \in DOMAIN o.exit_types
             THEN [o.exit_types EXCEPT ![exit_type] = @ + 1]
             ELSE o.exit_types]

\* get_metrics, line 169 and line 184: a win rate in percent.
WinRate(winning, total) == Frac(winning * 100, total)

\* get_metrics, lines 180-194: the per-symbol statistics.
StockStatistics(o) ==
    [s \in DOMAIN o.stock_stats |->
        LET stats == o.stock_stats[s]
        IN  [total_trades |-> stats.total_trades,
             winning_trades |-> stats.winning_trades,
             losing_trades |-> stats.losing_trades,
             win_rate |-> IF stats.total_trades > 0
                          THEN WinRate(stats.winning_trades, stats.total_trades)
                          ELSE FracZero,
             total_pnl |-> stats.total_pnl,
             max_profit |-> stats.max_profit,
             max_loss |-> stats.max_loss,
             total_commission |-> stats.total_commission]]

\* get_metrics, lines 169, 182-184 and 200: the local win_rate is assigned the
\* overall rate, then once more for each symbol of stock_stats in the dict's
\* order, and its last value is the one returned.
ReportedWinRate(o) ==
    IF o.stock_stats_order = <<>>
    THEN WinRate(o.winning_trades, o.total_trades)
    ELSE StockStatistics(o)[o.stock_stats_order[Len(o.stock_stats_order)]].win_rate

\* OrderMetric.get_metrics
GetMetrics(o) ==
    IF o.total_trades = 0
    THEN [total_trades |-> 0,
          win_rate |-> FracZero,
          profit_factor |-> FracZero,
          avg_holding_period |-> FracZero,
          stock_drawdowns |-> EmptyDict]
    ELSE [total_trades |-> o.total_trades,
          winning_trades |-> o.winning_trades,
          losing_trades |-> o.losing_trades,
          win_rate |-> ReportedWinRate(o),
          total_pnl |-> o.total_pnl,
          max_profit |-> o.max_profit,
          max_loss |-> o.max_loss,
          total_commission |-> o.total_commission,
          avg_holding_period |->
              Frac(SeqSum(o.holding_periods), Len(o.holding_periods)),
          exit_types |-> o.exit_types,
          stock_drawdowns |->
              [s \in DOMAIN o.stock_metrics |->
                  [max_drawdown |-> o.stock_metrics[s].max_drawdown,
                   current_drawdown |-> o.stock_metrics[s].current_drawdown]],
          stock_statistics |-> StockStatistics(o)]

----------------------------------------------------------------------------
(* Bounds and input sets of the risk manager *)

\* The symbols whose thresholds update_position_params has written since their
\* add_position.
overridden == DOMAIN overrides

\* Percentages are whole hundredths: 10 is 0.1.
StopLossPcts == {10}

TakeProfitPcts == {20}

MaxPositionPcts == {30, 100}

\* An optional argument: None, or the value given.
None == {}

Some(v) == {v}

ValueOf(opt) == CHOOSE v \in opt : TRUE

AddPrices == {50, 100}

CheckPrices == {89, 100, 120, 130}

RsiValues == {None, Some(50), Some(80)}

VolumeRatios == {None, Some(2)}

\* The percentages update_position_params is called with; a negative one puts
\* the threshold on the other side of the entry price.
OverridePcts == {None, Some(-25)}

\* What the broker may answer at the start of a day.
Cashes == {50, 10000, 50000}

Values == {10000, 100000}

PositionSizes == {0, 290}

ClosePrices == {10, 100}

\* get_position_size is called at most MaxSizings times between two resets.
MaxSizings == 2

----------------------------------------------------------------------------
(* RiskManager.  A price threshold is kept in hundredths: 9000 is 90.00. *)

\* RiskManager.__init__
RiskManagerInit(stop_loss_pct, take_profit_pct, max_position_size) ==
    [stop_loss_pct |-> stop_loss_pct,
     base_take_profit_pct |-> take_profit_pct,
     max_position_size |-> max_position_size,
     positions |-> EmptyDict,
     today_used_cash |-> 0,
     rsi_threshold |-> 70,
     trend_bonus |-> 10]

\* RiskManager.reset_daily_cash
ResetDailyCash(r) == [r EXCEPT !.today_used_cash = 0]

\* RiskManager.add_position
AddPosition(r, symbol, entry_price) ==
    [r EXCEPT !.positions =
        DictSet(@, symbol,
                [entry_price |-> entry_price,
                 stop_loss_price |-> entry_price * (100 - r.stop_loss_pct),
                 take_profit_price |-> entry_price * (100 + r.base_take_profit_pct)])]

\* Mutant of RemovePosition: removing an untracked symbol clears the records.
RemovePosition_UntrackedClears(r, symbol) ==
    IF symbol \in DOMAIN r.positions
    THEN [r EXCEPT !.positions = DictDel(@, symbol)]
    ELSE [r EXCEPT !.positions = EmptyDict]

\* RiskManager.remove_position
RemovePosition(r, symbol) ==
    IF symbol \in DOMAIN r.positions
    THEN [r EXCEPT !.positions = DictDel(@, symbol)]
    ELSE r

\* Mutant of DynamicTakeProfitPrice: a weak trend takes the bonus off.
DynamicTakeProfitPrice_WeakTrendLowers(r, position, rsi, volume_ratio) ==
    IF rsi # None /\ volume_ratio # None
    THEN LET trend_strength == IF ValueOf(rsi) > r.rsi_threshold THEN 1 ELSE -1
             take_profit_pct == r.base_take_profit_pct + trend_strength * r.trend_bonus
         IN  position.entry_price * (100 + take_profit_pct)
    ELSE position.take_profit_price

\* check_exit_signals, lines 82-97: the take-profit price the call leaves in
\* the position record.
DynamicTakeProfitPrice(r, position, rsi, volume_ratio) ==
    IF rsi # None /\ volume_ratio # None
    THEN LET trend_strength == IF ValueOf(rsi) > r.rsi_threshold THEN 1 ELSE 0
             take_profit_pct == r.base_take_profit_pct + trend_strength * r.trend_bonus
         IN  position.entry_price * (100 + take_profit_pct)
    ELSE position.take_profit_price

NoExit == [exit |-> FALSE, type |-> "None"]

\* Mutant of ExitSignal: take-profit is tested before stop-loss.
ExitSignal_TakeProfitFirst(r, position, current_price, rsi, volume_ratio) ==
    IF current_price * 100 >= DynamicTakeProfitPrice(r, position, rsi, volume_ratio)
    THEN [exit |-> TRUE, type |-> "take_profit"]
    ELSE IF current_price * 100 <= position.stop_loss_price
    THEN [exit |-> TRUE, type |-> "stop_loss"]
    ELSE NoExit

\* check_exit_signals, lines 78-103: the result for a tracked position.
ExitSignal(r, position, current_price, rsi, volume_ratio) ==
    IF current_price * 100 <= position.stop_loss_price
    THEN [exit |-> TRUE, type |-> "stop_loss"]
    ELSE IF current_price * 100 >=
                DynamicTakeProfitPrice(r, position, rsi, volume_ratio)
    THEN [exit |-> TRUE, type |-> "take_profit"]
    ELSE NoExit

\* RiskManager.check_exit_signals: the value returned.
CheckExitSignalsResult(r, symbol, current_price, rsi, volume_ratio) ==
    IF symbol \notin DOMAIN r.positions
    THEN NoExit
    ELSE ExitSignal(r, r.positions[symbol], current_price, rsi, volume_ratio)

\* RiskManager.check_exit_signals: the manager after the call.  The stop-loss
\* return at line 80 comes before the take-profit price is rewritten.
CheckExitSignals(r, symbol, current_price, rsi, volume_ratio) ==
    IF symbol \notin DOMAIN r.positions
    THEN r
    ELSE LET position == r.positions[symbol]
         IN  IF current_price * 100 <= position.stop_loss_price
             THEN r
             ELSE [r EXCEPT !.positions[symbol].take_profit_price =
                       DynamicTakeProfitPrice(r, position, rsi, volume_ratio)]

\* RiskManager.update_position_params
UpdatePositionParams(r, symbol, stop_loss_pct, take_profit_pct) ==
    IF symbol \notin DOMAIN r.positions
    THEN r
    ELSE LET entry_price == r.positions[symbol].entry_price
         IN  [r EXCEPT
                !.positions[symbol].stop_loss_price =
                    IF stop_loss_pct # None
                    THEN entry_price * (100 - ValueOf(stop_loss_pct))
                    ELSE @,
                !.positions[symbol].take_profit_price =
                    IF take_profit_pct # None
                    THEN entry_price * (100 + ValueOf(take_profit_pct))
                    ELSE @]

\* get_position_size, lines 140-150: the market value of the open positions.
RECURSIVE PositionValueOf(_, _, _)
PositionValueOf(b, prices, datas) ==
    IF datas = {} THEN 0
    ELSE LET d == CHOOSE x \in datas : TRUE
         IN  (IF b.position[d] # 0 THEN b.position[d] * prices[d] ELSE 0)
             + PositionValueOf(b, prices, datas \ {d})

TotalPositionValue(b, prices) == PositionValueOf(b, prices, Symbols)

\* Mutant of PositionSize: the allocation cap is not applied to the cash.
PositionSize_CashOnly(cash, total_value, total_position_value, price, max_position_size) ==
    IF total_value * max_position_size - total_position_value * 100 <= 0
    THEN 0
    ELSE IF cash < price THEN 0 ELSE cash \div price

\* get_position_size, lines 152-172.  Amounts are compared in hundredths.
PositionSize(cash, total_value, total_position_value, price, max_position_size) ==
    LET remaining_position ==
            total_value * max_position_size - total_position_value * 100
        available_cash == Min(cash * 100, remaining_position)
    IN  IF remaining_position <= 0 THEN 0
        ELSE IF available_cash < price * 100 THEN 0
        ELSE available_cash \div (price * 100)

\* RiskManager.get_position_size: the value returned.  The manager itself is
\* left as it was: no line of the method assigns a field.
GetPositionSize(r, symbol, b, prices) ==
    PositionSize(b.cash, b.value, TotalPositionValue(b, prices), prices[symbol],
                 r.max_position_size)

----------------------------------------------------------------------------
(* Bounds and input sets of the strategies *)

\* The data feeds, in the order of self.datas.
datas == <<"A", "B">>

\* The strategy classes built on BaseStrategy.
Strategies ==
    {"MACDRSIStrategy", "SMACrossoverStrategy", "DCAStrategy", "DualThrustStrategy"}

\* A new bar is delivered only while at most MaxPending orders wait at the
\* broker, and a run is MaxBars bars long.
MaxPending == 1

MaxBars == 2

\* order.executed.price of a completed order, and data.close[0] of a bar:
\* against an entry at 1000 a close of 890 is a loss of 11%, 1600 a gain of 60%.
FillPrices == {1000}

BarCloses == {890, 1000, 1600}

\* The day of the month of a bar.
BarDays == {1, 15}

\* DCAStrategy.params.invest_date.
InvestDates == {1, 10}

\* broker.get_cash() as DCAStrategy reads it on a bar.
StrategyCashes == {0, 1500, 5000}

\* The share counts RiskManager.calculate_position_size answers.
SizeAnswers == {0, 1, 2}

\* volatility_factor of sell_position, in hundredths: 1.0 and its cap 1.5.
VolatilityFactors == {100, 150}

\* macd.macd minus macd.signal on the previous and on the current bar, and rsi[0].
MacdGaps == {-1, 0, 1}

RsiReadings == {50, 80}

\* CrossOver(sma_short, sma_long)[0] with whether sma_short[0] > sma_long[0]:
\* an upward cross leaves the short average above, a downward cross below.
SmaReadings ==
    { [crossover |-> 1, above |-> TRUE], [crossover |-> 0, above |-> TRUE],
      [crossover |-> 0, above |-> FALSE], [crossover |-> -1, above |-> FALSE] }

\* The statuses an order is notified with.
Statuses == {"Submitted", "Accepted", "Completed", "Canceled", "Margin", "Rejected"}

----------------------------------------------------------------------------
(* BaseStrategy *)

\* The parameters, in hundredths.  DCAStrategy overrides take_profit_pct.
params_stop_loss_pct == 10

params_take_profit_pct == 50

dca_take_profit_pct == 40

keep_observation_position == FALSE

observation_position_pct == 10

TakeProfitPct(cls) == IF cls = "DCAStrategy" THEN dca_take_profit_pct ELSE params_take_profit_pct

\* BaseStrategy.__init__, with the fields the subclasses add: invest_date and
\* last_invest_dates of DCAStrategy.  position_status is written and never
\* read, like the log, and the value histories only feed the sizing of
\* RiskManager.calculate_position_size, whose answers are SizeAnswers: they
\* are left out.
BaseStrategyInit(cls, invest_date) ==
    [ cls |-> cls,
      invest_date |-> invest_date,
      entry_prices |-> EmptyDict,
      orders |-> EmptyDict,
      last_invest_dates |-> EmptyDict ]

\* self.orders.get(name) is truthy: the slot holds an order object.  A slot
\* holds TRUE for an order object and FALSE for None.
OrdersGet(s, name) == name \in DOMAIN s.orders /\ s.orders[name]

\* int() of the quotient a / b, b > 0: truncation toward zero.
IntDiv(a, b) == IF a >= 0 THEN a \div b ELSE -((-a) \div b)

\* An order sent to the broker.
Order(name, isbuy, size) == [symbol |-> name, isbuy |-> isbuy, size |-> size]

\* self.buy(size=...) and self.sell(size=...): backtrader sends abs(size) and
\* sends nothing (and returns None) when the size is 0.
Submit(orders, name, isbuy, size) ==
    IF size = 0 THEN orders ELSE Append(orders, Order(name, isbuy, Abs(size)))

\* RiskManager.should_stop_loss(...)["should_stop"]: the fixed stop at
\* entry x (1 - stop_loss_pct).
ShouldStopLoss(entry_price, current_price) ==
    current_price * 100 <= entry_price * (100 - params_stop_loss_pct)

\* RiskManager.should_take_profit.
ShouldTakeProfit(cls, entry_price, current_price) ==
    current_price * 100 >= entry_price * (100 + TakeProfitPct(cls))

\* The stop-loss branch of sell_position: sell_ratio is
\* min(0.5 + (loss_pct - stop_loss_pct) * 10, 1.0), over 100 x entry_price.
StopLossSellSize(size, entry_price, current_price) ==
    LET den == 100 * entry_price
        num == 50 * entry_price + 1000 * (entry_price - current_price)
                  - 10 * params_stop_loss_pct * entry_price
    IN  IntDiv(size * Min(num, den), den)

\* The take-profit branch: dynamic_ratio is 0.2 + excess_profit * 0.05, here
\* over 2000 x entry_price, and sell_ratio is min(0.9, dynamic_ratio x factor).
TakeProfitSellSize(cls, size, entry_price, current_price, factor) ==
    LET den == 2000 * entry_price * 100
        num == (400 * entry_price + 100 * (current_price - entry_price)
                   - TakeProfitPct(cls) * entry_price) * factor
    IN  IF num * 10 <= 9 * den THEN IntDiv(size * num, den) ELSE IntDiv(size * 9, 10)

\* The last branch: everything, or everything but the observation position.
SignalSellSize(size) ==
    IF keep_observation_position
    THEN LET observation_size == Max(1, IntDiv(size * observation_position_pct, 100))
         IN  IF size - observation_size > 0 THEN size - observation_size ELSE 0
    ELSE size

\* BaseStrategy.sell_position: the size it passes to self.sell, 0 when it
\* submits nothing.
SellPosition(s, name, size, current_price, factor) ==
    IF size = 0 THEN 0
    ELSE IF name \notin DOMAIN s.entry_prices THEN 0
    ELSE IF s.entry_prices[name] = 0 THEN 0
    ELSE LET entry_price == s.entry_prices[name]
             gain == (current_price - entry_price) * 100
         IN  IF gain < -(params_stop_loss_pct * entry_price)
             THEN Max(StopLossSellSize(size, entry_price, current_price), 0)
             ELSE IF gain > TakeProfitPct(s.cls) * entry_price
             THEN Max(TakeProfitSellSize(s.cls, size, entry_price, current_price, factor), 0)
             ELSE SignalSellSize(size)

\* The body of the loop of BaseStrategy.check_exit_signals for one data feed:
\* whether an exit condition holds.
ExitCondition(s, name, size, current_price) ==
    /\ size # 0
    /\ name \in DOMAIN s.entry_prices
    /\ \/ ShouldStopLoss(s.entry_prices[name], current_price)
       \/ ShouldTakeProfit(s.cls, s.entry_prices[name], current_price)

\* The framework applies a completed order to the position of its data feed.
Fill(b, o) ==
    [b EXCEPT !.position[o.symbol] = IF o.isbuy THEN @ + o.size ELSE @ - o.size]

\* BaseStrategy.notify_order.
NotifyOrder(s, o, status, price) ==
    IF status \in {"Submitted", "Accepted"} THEN s
    ELSE LET s1 == IF status = "Completed"
                   THEN IF o.isbuy
                        THEN [s EXCEPT !.entry_prices = DictSet(@, o.symbol, price)]
                        ELSE [s EXCEPT !.entry_prices = DictDel(@, o.symbol)]
                   ELSE s
         IN  [s1 EXCEPT !.orders = DictSet(@, o.symbol, FALSE)]

----------------------------------------------------------------------------
(* The strategies built on BaseStrategy.  What a loop body decides for one *)
(* data feed is a record: the size it buys and the size it passes to sell, *)
(* 0 for no order. *)

Decision(bought, sold) == [bought |-> bought, sold |-> sold]

\* MACDRSIStrategy.  A gap is macd.macd minus macd.signal.
rsi_upper == 70

MacdCrossover(previous_gap, gap) == gap > 0 /\ previous_gap <= 0

MacdCrossunder(previous_gap, gap) == gap < 0 /\ previous_gap >= 0

MacdBuyCondition(previous_gap, gap, rsi) == MacdCrossover(previous_gap, gap) /\ rsi < rsi_upper

MacdSellCondition(previous_gap, gap, rsi) == MacdCrossunder(previous_gap, gap) \/ rsi > rsi_upper

\* MacdRsiDecision with the buy branch not asking for a flat position.
MacdRsiDecision_Pyramiding(s, name, size, buy_condition, sell_condition, answer, current_price, factor) ==
    IF OrdersGet(s, name) THEN Decision(0, 0)
    ELSE IF buy_condition THEN Decision(answer, 0)
    ELSE IF size # 0 /\ sell_condition
    THEN Decision(0, SellPosition(s, name, size, current_price, factor))
    ELSE Decision(0, 0)

\* The body of the loop of MACDRSIStrategy.next.
MacdRsiDecision(s, name, size, buy_condition, sell_condition, answer, current_price, factor) ==
    IF OrdersGet(s, name) THEN Decision(0, 0)
    ELSE IF size = 0 /\ buy_condition THEN Decision(answer, 0)
    ELSE IF size # 0 /\ sell_condition
    THEN Decision(0, SellPosition(s, name, size, current_price, factor))
    ELSE Decision(0, 0)

\* DualThrustStrategy.  k1 and k2 are 0.5: both sides of a comparison are doubled.
n_days == 5

DualThrustBars ==
    { [open |-> 10, high |-> h, low |-> l, range |-> 2] : h \in {10, 12}, l \in {8, 10} }

DualThrustBuyCondition(bar) == 2 * bar.high > 2 * bar.open + bar.range

DualThrustSellCondition(bar) == 2 * bar.low < 2 * bar.open - bar.range

\* The body of the loop of DualThrustStrategy.next.
DualThrustDecision(s, name, size, bar, answer, current_price, factor) ==
    IF OrdersGet(s, name) THEN Decision(0, 0)
    ELSE IF size = 0
    THEN IF DualThrustBuyCondition(bar) THEN Decision(answer, 0) ELSE Decision(0, 0)
    ELSE IF DualThrustSellCondition(bar)
    THEN Decision(0, SellPosition(s, name, size, current_price, factor))
    ELSE Decision(0, 0)

\* DCAStrategy.  A date is a month, counted from the start of the run, and a
\* day of that month.
invest_amount == 2000

\* Mutant of IsInvestDay: the month of the last purchase is not looked at.
IsInvestDay_IgnoresMonth(s, name, date) ==
    IF name \notin DOMAIN s.last_invest_dates THEN TRUE
    ELSE date.day >= s.invest_date

\* DCAStrategy.is_invest_day
IsInvestDay(s, name, date) ==
    IF name \notin DOMAIN s.last_invest_dates THEN TRUE
    ELSE IF date.month = s.last_invest_dates[name].month THEN FALSE
    ELSE date.day >= s.invest_date

CalculateBuySize(available_cash, current_price, max_size) ==
    LET amount == Min(invest_amount, available_cash)
        size == amount \div current_price
    IN  IF amount <= 0 THEN 0
        ELSE IF max_size > 0 THEN Min(size, max_size) ELSE size

\* The body of the loop of DCAStrategy.next: the size it buys.
DcaBuySize(s, name, date, available_cash, current_price, max_size) ==
    IF OrdersGet(s, name) THEN 0
    ELSE IF ~IsInvestDay(s, name, date) THEN 0
    ELSE CalculateBuySize(available_cash, current_price, max_size)

\* SMACrossoverStrategy.select_best_stock: the feeds it scores.  The one with
\* the highest score is returned, None when there is none; a score is a
\* quotient of indicator values, so any of the scored feeds can be the best.
SmaCandidates(s, position, reading) ==
    { name \in Symbols : /\ ~OrdersGet(s, name)
                         /\ position[name] = 0
                         /\ (reading[name].crossover = 1 \/ reading[name].above) }

\* What SMACrossoverStrategy.next does with one feed, after best_stock is chosen:
\* the branch of the best stock, or the body of the loop over all feeds.
SmaDecision(s, name, size, crossover, answer) ==
    IF size = 0
    THEN IF crossover = 1 THEN Decision(answer, 0) ELSE Decision(0, 0)
    ELSE IF crossover = -1 THEN Decision(0, size) ELSE Decision(0, 0)

SmaLoopDecision(s, name, size, crossover, answer) ==
    IF OrdersGet(s, name) THEN Decision(0, 0)
    ELSE SmaDecision(s, name, size, crossover, answer)

\* The position of the strategy in next().
Idle == [phase |-> "idle", i |-> 0]

At(phase, i) == [phase |-> phase, i |-> i]

\* Before the first call of next(): no date yet, and len(self) one short of
\* the bar of the first call.  The indicator Highest(period=n_days) of
\* DualThrustStrategy keeps backtrader from calling next() before bar n_days.
StartLen(cls) == IF cls = "DualThrustStrategy" THEN n_days - 1 ELSE 0

StartClock(cls) == [month |-> 0, day |-> 0, len |-> StartLen(cls)]

NoStep ==
    [ op |-> "none", symbol |-> "", max_size |-> 0,
      buy_cond |-> [s \in Symbols |-> FALSE], sell_cond |-> [s \in Symbols |-> FALSE],
      bought |-> [s \in Symbols |-> 0], sold |-> [s \in Symbols |-> 0] ]

\* Before the first call of next().
NoBar == [exits |-> {}, exit_sold |-> {}, cash |-> 0]

\* The first statement of next() in every strategy is super().next(), which is
\* BaseStrategy.next: the loop of check_exit_signals comes first.
FirstStep_SignalsFirst == At("signals", 1)

FirstStep == At("exits", 1)

\* The strategy while another component is explored.
StrategyIdle ==
    /\ in_next = NoBar
    /\ st = BaseStrategyInit("BaseStrategy", 1)
    /\ pc = Idle
    /\ pending = <<>>
    /\ clock = StartClock("BaseStrategy")
    /\ st_last = NoStep

----------------------------------------------------------------------------
(* The long/short DualThrustStrategy of src/DualThrustStrategy.py, over the  *)
(* bars of one trading day.  A time is in minutes since midnight.  k1 and k2 *)
(* are 0.5 and the fixed stop is 3.5 x ATR: the band lines are kept doubled, *)
(* and both sides of the comparisons with them and with the stop are.        *)

\* The bars of a run.
MaxThrustBars == 5

\* The minutes from one bar to the next.
BarMinutes == 30

\* The time of the first bar: 9:30 and 10:00.
ThrustStarts == {570, 600}

\* What a bar shows: its close, the sign of sma_fast[0] - sma_slow[0], adx[0],
\* adx[-1] and atr[0].
ThrustBars ==
    [close : {92, 100, 108, 116}, sma : {-1, 1}, adx : {10, 30},
     adx_previous : {20}, atr : {2}]

\* The day: hh[0], ll[0] and close[0] of the day data, and minute_data.open[0]
\* when the day begins.
ThrustDay == [hh |-> 110, ll |-> 90, close |-> 100, open |-> 100]

\* size of next(), min(size1, size2) and at least 1, as the cash makes it.
ThrustSizes == {1, 4}

\* order.executed.price less the close of the bar the order was sent on.
Slippages == {0, 1}

cooldown_minutes == 60

\* DualThrustStrategy.__init__
DualThrustInit ==
    [order |-> None, buy_line |-> None, sell_line |-> None, current_day |-> None,
     range_val |-> None, highest_price |-> None, lowest_price |-> None,
     last_trade_time |-> None, buy_signal_count |-> 0, sell_signal_count |-> 0]

FlatPosition == [size |-> 0, price |-> 0]

\* An order: what buy, sell and close send to the broker.  ref is the close of
\* the bar it was sent on.
ThrustOrder(kind, size, ref) == [kind |-> kind, size |-> size, ref |-> ref]

\* What a call of next() leaves: the strategy object and the order it sent.
Outcome(s, sent) == [s |-> s, sent |-> sent]

\* next(), lines 82-91: the lines of a new day.
NewDayLines(s, today) ==
    IF s.current_day # Some(today)
    THEN LET range == Max(ThrustDay.hh - ThrustDay.close,
                          ThrustDay.close - ThrustDay.ll)
             range_val == IF range < 1 THEN 1 ELSE range
         IN  [s EXCEPT !.current_day = Some(today),
                       !.range_val = Some(range_val),
                       !.buy_line = Some(2 * ThrustDay.open + range_val),
                       !.sell_line = Some(2 * ThrustDay.open - range_val)]
    ELSE s

\* next(), lines 172-177: the entry condition of a long.
ThrustBuyCondition(s, bar) ==
    /\ 2 * bar.close > ValueOf(s.buy_line)
    /\ bar.sma > 0
    /\ bar.adx > 25
    /\ bar.adx > bar.adx_previous

\* next(), lines 187-192: the entry condition of a short.
ThrustSellCondition(s, bar) ==
    /\ 2 * bar.close < ValueOf(s.sell_line)
    /\ bar.sma < 0
    /\ bar.adx > 25
    /\ bar.adx > bar.adx_previous

\* next(), lines 95-109: the bar is left before positions and signals are
\* looked at: the first and last minutes of the session, an order pending,
\* the cooldown after a trade.  (The warm-up test of lines 98-100 never holds
\* in next(): the indicators of period 50 and 2 keep the first call back.)
ThrustSkips(s, time) ==
    LET hour == time \div 60
        minute == time % 60
    IN  \/ (hour = 9 /\ minute < 35) \/ (hour = 15 /\ minute >= 55)
        \/ s.order # None
        \/ /\ s.last_trade_time # None
           /\ time - ValueOf(s.last_trade_time) < cooldown_minutes

\* next(), lines 125 and 130: the close is at or below the fixed stop of a long.
LongStopCrossed(position, bar) == 2 * bar.close <= 2 * position.price - 7 * bar.atr

\* next(), lines 149 and 154: the close is at or above the fixed stop of a short.
ShortStopCrossed(position, bar) == 2 * bar.close >= 2 * position.price + 7 * bar.atr

\* next(), lines 123-146: a long position is open.
LongExit(s, position, time, bar) ==
    LET highest == IF s.highest_price = None \/ bar.close > ValueOf(s.highest_price)
                   THEN bar.close
                   ELSE ValueOf(s.highest_price)
        trailing_stop == highest - bar.atr * 4
        profit == bar.close - position.price
        order == ThrustOrder("close", -position.size, bar.close)
        closed == [s EXCEPT !.order = Some(order), !.highest_price = None,
                            !.last_trade_time = Some(time)]
    IN  IF LongStopCrossed(position, bar) THEN Outcome(closed, Some(order))
        ELSE IF bar.close <= trailing_stop /\ profit > bar.atr * 2
        THEN Outcome(closed, Some(order))
        ELSE IF bar.adx < 15 /\ profit <= bar.atr THEN Outcome(closed, Some(order))
        ELSE Outcome([s EXCEPT !.highest_price = Some(highest)], None)

\* next(), lines 147-170: a short position is open.
ShortExit(s, position, time, bar) ==
    LET lowest == IF s.lowest_price = None \/ bar.close < ValueOf(s.lowest_price)
                  THEN bar.close
                  ELSE ValueOf(s.lowest_price)
        trailing_stop == lowest + bar.atr * 4
        profit == position.price - bar.close
        order == ThrustOrder("close", -position.size, bar.close)
        closed == [s EXCEPT !.order = Some(order), !.lowest_price = None,
                            !.last_trade_time = Some(time)]
    IN  IF ShortStopCrossed(position, bar) THEN Outcome(closed, Some(order))
        ELSE IF bar.close >= trailing_stop /\ profit > bar.atr * 2
        THEN Outcome(closed, Some(order))
        ELSE IF bar.adx < 15 /\ profit <= bar.atr THEN Outcome(closed, Some(order))
        ELSE Outcome([s EXCEPT !.lowest_price = Some(lowest)], None)

\* next(), lines 171-207: no position is open.
ThrustEntry(s, time, bar, size) ==
    IF ThrustBuyCondition(s, bar)
    THEN IF s.buy_signal_count + 1 >= 3
         THEN LET order == ThrustOrder("buy", size, bar.close)
              IN  Outcome([s EXCEPT !.order = Some(order),
                                    !.highest_price = Some(bar.close),
                                    !.last_trade_time = Some(time),
                                    !.buy_signal_count = 0],
                          Some(order))
         ELSE Outcome([s EXCEPT !.buy_signal_count = @ + 1], None)
    ELSE IF ThrustSellCondition(s, bar)
    THEN IF s.sell_signal_count + 1 >= 3
         THEN LET short_size == Max(1, (size * 5) \div 10)
                  order == ThrustOrder("sell", -short_size, bar.close)
              IN  Outcome([s EXCEPT !.order = Some(order),
                                    !.lowest_price = Some(bar.close),
                                    !.last_trade_time = Some(time),
                                    !.sell_signal_count = 0],
                          Some(order))
         ELSE Outcome([s EXCEPT !.sell_signal_count = @ + 1], None)
    ELSE Outcome([s EXCEPT !.buy_signal_count = 0, !.sell_signal_count = 0], None)

\* DualThrustStrategy.next
DualThrustNext(s, position, time, bar, size) ==
    LET s1 == NewDayLines(s, 1)
    IN  IF ThrustSkips(s1, time) THEN Outcome(s1, None)
        ELSE IF position.size > 0 THEN LongExit(s1, position, time, bar)
        ELSE IF position.size < 0 THEN ShortExit(s1, position, time, bar)
        ELSE ThrustEntry(s1, time, bar, size)

\* DualThrustStrategy.notify_order
DualThrustNotifyOrder(s, status) ==
    IF status \in {"Submitted", "Accepted"} THEN s
    ELSE IF status \in {"Completed", "Canceled", "Margin", "Rejected"}
    THEN [s EXCEPT !.order = None]
    ELSE s

\* The broker applies a completed order to the position.
ThrustFill(position, order, price) ==
    IF position.size + order.size = 0 THEN FlatPosition
    ELSE [size |-> position.size + order.size, price |-> price]

\* The direction whose entry condition a bar meets.
EntrySignal(s, bar) ==
    IF ThrustBuyCondition(s, bar) THEN "buy"
    ELSE IF ThrustSellCondition(s, bar) THEN "sell"
    ELSE "none"

\* The last three elements of a sequence.
LastThree(q) == IF Len(q) <= 3 THEN q ELSE SubSeq(q, Len(q) - 2, Len(q))

\* The best close for a position among a close and the best one so far.
BestClose(position, best, price) ==
    IF best = None THEN Some(price)
    ELSE IF position.size > 0 THEN Some(Max(ValueOf(best), price))
    ELSE Some(Min(ValueOf(best), price))

NoThrustStep ==
    [op |-> "none", skipped |-> FALSE, crossed |-> FALSE, pending |-> FALSE,
     sent |-> "none", recent |-> <<>>, best |-> None]

ThrustIdle ==
    /\ dt = [s |-> DualThrustInit, position |-> FlatPosition, at_broker |-> None,
             time |-> 0, bars |-> 0]
    /\ dt_last = NoThrustStep

----------------------------------------------------------------------------
(* The risk manager as a state machine: any caller, any order of calls *)

NoRiskCall == [op |-> "none"]

Brokers == [cash : Cashes, value : Values, position : [Symbols -> PositionSizes]]

NewDay == [count |-> 0, cost |-> 0]

\* The risk manager and the broker while another component is explored.
RiskIdle ==
    /\ rm = RiskManagerInit(10, 20, 30)
    /\ rm_last = NoRiskCall
    /\ overrides = EmptyDict
    /\ broker = [cash |-> 0, value |-> 0, position |-> [s \in Symbols |-> 0]]
    /\ close = [s \in Symbols |-> 100]
    /\ day = NewDay

LedgerIdle ==
    /\ om = OrderMetricInit
    /\ om_last = [op |-> "none", symbol |-> "", active |-> FALSE]

IdleBroker == [cash |-> 0, value |-> 0, position |-> [s \in Symbols |-> 0]]

InitRisk ==
    /\ ThrustIdle
    /\ LedgerIdle
    /\ StrategyIdle
    /\ \E sl \in StopLossPcts, tp \in TakeProfitPcts :
          rm = RiskManagerInit(sl, tp, 30)
    /\ rm_last = NoRiskCall
    /\ overrides = EmptyDict
    /\ broker = IdleBroker
    /\ close = [s \in Symbols |-> 100]
    /\ day = NewDay

InitSizing ==
    /\ ThrustIdle
    /\ LedgerIdle
    /\ StrategyIdle
    /\ \E sl \in StopLossPcts, tp \in TakeProfitPcts, mp \in MaxPositionPcts :
          rm = RiskManagerInit(sl, tp, mp)
    /\ rm_last = NoRiskCall
    /\ overrides = EmptyDict
    /\ broker \in Brokers
    /\ close \in [Symbols -> ClosePrices]
    /\ day = NewDay

add_position ==
    \E symbol \in Symbols, entry_price \in AddPrices :
        /\ rm' = AddPosition(rm, symbol, entry_price)
        /\ rm_last' = [op |-> "add_position", symbol |-> symbol,
                       entry_price |-> entry_price]
        /\ overrides' = DictDel(overrides, symbol)
        /\ UNCHANGED <<broker, close, day, ledgerVars, strategyVars, thrustVars>>

remove_position ==
    \E symbol \in Symbols :
        /\ rm' = RemovePosition(rm, symbol)
        /\ rm_last' = [op |-> "remove_position", symbol |-> symbol,
                       tracked |-> symbol \in DOMAIN rm.positions]
        /\ overrides' = DictDel(overrides, symbol)
        /\ UNCHANGED <<broker, close, day, ledgerVars, strategyVars, thrustVars>>

check_exit_signals ==
    \E symbol \in Symbols, current_price \in CheckPrices, rsi \in RsiValues,
       volume_ratio \in VolumeRatios :
        /\ rm' = CheckExitSignals(rm, symbol, current_price, rsi, volume_ratio)
        /\ rm_last' = [op |-> "check_exit_signals", symbol |-> symbol,
                       current_price |-> current_price, rsi |-> rsi,
                       volume_ratio |-> volume_ratio,
                       tracked |-> symbol \in DOMAIN rm.positions,
                       result |-> CheckExitSignalsResult(rm, symbol, current_price,
                                                         rsi, volume_ratio)]
        /\ UNCHANGED <<overrides, broker, close, day, ledgerVars, strategyVars, thrustVars>>

update_position_params ==
    \E symbol \in Symbols, stop_loss_pct \in OverridePcts,
       take_profit_pct \in OverridePcts :
        /\ rm' = UpdatePositionParams(rm, symbol, stop_loss_pct, take_profit_pct)
        /\ rm_last' = [op |-> "update_position_params", symbol |-> symbol,
                       tracked |-> symbol \in DOMAIN rm.positions]
        /\ overrides' =
               IF /\ symbol \in DOMAIN rm.positions
                  /\ (stop_loss_pct # None \/ take_profit_pct # None)
               THEN LET earlier == IF symbol \in DOMAIN overrides
                                   THEN overrides[symbol]
                                   ELSE [stop_loss_price |-> None,
                                         take_profit_price |-> None]
                        written == rm'.positions[symbol]
                    IN  DictSet(overrides, symbol,
                                [stop_loss_price |->
                                     IF stop_loss_pct # None
                                     THEN Some(written.stop_loss_price)
                                     ELSE earlier.stop_loss_price,
                                 take_profit_price |->
                                     IF take_profit_pct # None
                                     THEN Some(written.take_profit_price)
                                     ELSE earlier.take_profit_price])
               ELSE overrides
        /\ UNCHANGED <<broker, close, day, ledgerVars, strategyVars, thrustVars>>

\* reset_daily_cash, called at the start of a trading day: the broker and the
\* closing prices are those of the new day and stay fixed until the next reset.
reset_daily_cash ==
    /\ rm' = ResetDailyCash(rm)
    /\ rm_last' = [op |-> "reset_daily_cash"]
    /\ broker' \in Brokers
    /\ close' \in [Symbols -> ClosePrices]
    /\ day' = NewDay
    /\ UNCHANGED <<overrides, ledgerVars, strategyVars, thrustVars>>

get_position_size ==
    \E symbol \in Symbols :
        /\ day.count < MaxSizings
        /\ LET size == GetPositionSize(rm, symbol, broker, close)
           IN  /\ rm_last' = [op |-> "get_position_size", symbol |-> symbol,
                              size |-> size]
               /\ day' = [count |-> day.count + 1,
                          cost |-> day.cost + size * close[symbol]]
        /\ UNCHANGED <<rm, overrides, broker, close, ledgerVars, strategyVars, thrustVars>>

NextRisk ==
    \/ add_position
    \/ remove_position
    \/ check_exit_signals
    \/ update_position_params

SpecRisk == InitRisk /\ [][NextRisk]_vars

\* The constructor called with any configuration, the default one and three
\* that a validation would refuse: a negative stop_loss_pct, a negative
\* take_profit_pct, a max_position_size of zero.
Configurations ==
    {[stop_loss_pct |-> 10, take_profit_pct |-> 20, max_position_size |-> 30],
     [stop_loss_pct |-> -10, take_profit_pct |-> 20, max_position_size |-> 30],
     [stop_loss_pct |-> 10, take_profit_pct |-> -20, max_position_size |-> 30],
     [stop_loss_pct |-> 10, take_profit_pct |-> 20, max_position_size |-> 0]}

InitConfigured ==
    /\ ThrustIdle
    /\ LedgerIdle
    /\ StrategyIdle
    /\ \E c \in Configurations :
          rm = RiskManagerInit(c.stop_loss_pct, c.take_profit_pct,
                               c.max_position_size)
    /\ rm_last = NoRiskCall
    /\ overrides = EmptyDict
    /\ broker = IdleBroker
    /\ close = [s \in Symbols |-> 100]
    /\ day = NewDay

SpecConfigured == InitConfigured /\ [][NextRisk]_vars

NextSizing == reset_daily_cash \/ get_position_size

SpecSizing == InitSizing /\ [][NextSizing]_vars

----------------------------------------------------------------------------
(* The ledger as a state machine: any caller, any order of calls *)

InitLedger ==
    /\ ThrustIdle
    /\ om = OrderMetricInit
    /\ om_last = [op |-> "none", symbol |-> "", active |-> FALSE]
    /\ RiskIdle
    /\ StrategyIdle

on_trade_entry ==
    \E symbol \in Symbols, c \in EntryCalls :
        /\ om' = OnTradeEntry(om, symbol, c.entry_time, c.entry_price, c.size,
                              c.direction, c.commission)
        /\ om_last' = [op |-> "on_trade_entry", symbol |-> symbol, call |-> c,
                       active |-> symbol \in DOMAIN om.active_trades]
        /\ UNCHANGED <<riskVars, strategyVars, thrustVars>>

on_trade_exit ==
    \E symbol \in Symbols, c \in ExitCalls :
        /\ Len(om.trades) < MaxTrades
        /\ om' = OnTradeExit(om, symbol, c.exit_time, c.exit_price, c.commission,
                             c.exit_type)
        /\ om_last' = [op |-> "on_trade_exit", symbol |-> symbol, call |-> c,
                       active |-> symbol \in DOMAIN om.active_trades]
        /\ UNCHANGED <<riskVars, strategyVars, thrustVars>>

NextLedger == on_trade_entry \/ on_trade_exit

SpecLedger == InitLedger /\ [][NextLedger]_vars

----------------------------------------------------------------------------
(* A strategy as a state machine: backtrader delivers a bar and calls next(), *)
(* which runs check_exit_signals over the feeds and then the signals of the   *)
(* strategy over the feeds; between two bars the broker notifies orders.      *)

InitStrategy ==
    /\ ThrustIdle
    /\ LedgerIdle
    /\ in_next = NoBar
    /\ RiskIdle
    /\ \E cls \in Strategies :
          \E invest_date \in (IF cls = "DCAStrategy" THEN InvestDates ELSE {1}) :
              /\ st = BaseStrategyInit(cls, invest_date)
              /\ clock = StartClock(cls)
    /\ pc = Idle
    /\ pending = <<>>
    /\ st_last = NoStep

\* The clock on the bar after the one of clock c.  Only DCAStrategy reads the
\* date: its feeds have a bar on each of BarDays of every month, and the first
\* bar of a run falls on any of them.
NextClocks(cls, c) ==
    IF cls # "DCAStrategy" THEN { [c EXCEPT !.len = @ + 1] }
    ELSE IF c.day = 0 THEN { [c EXCEPT !.day = d, !.len = @ + 1] : d \in BarDays }
    ELSE LET later == { d \in BarDays : d > c.day }
         IN  IF later # {}
             THEN { [c EXCEPT !.day = CHOOSE d \in later : \A x \in later : d <= x,
                              !.len = @ + 1] }
             ELSE { [month |-> c.month + 1, len |-> c.len + 1,
                     day |-> CHOOSE d \in BarDays : \A x \in BarDays : d <= x] }

\* Where next() goes after the loop of check_exit_signals: DualThrustStrategy
\* returns while len(self) < n_days.
AfterExits(cls, c) ==
    IF cls = "DualThrustStrategy" /\ c.len < n_days THEN Idle ELSE At("signals", 1)

AfterFeed(phase, i) == IF i < Len(datas) THEN At(phase, i + 1) ELSE Idle

\* A new bar: its closes, the cash of the broker, its date.
next_bar ==
    /\ pc = Idle
    /\ Len(pending) <= MaxPending
    /\ clock.len - StartLen(st.cls) < MaxBars
    /\ \E prices \in [Symbols -> BarCloses], c \in NextClocks(st.cls, clock) :
          \E cash \in (IF st.cls = "DCAStrategy" THEN StrategyCashes ELSE {broker.cash}) :
              /\ close' = prices
              /\ clock' = c
              /\ broker' = [broker EXCEPT !.cash = cash]
              /\ in_next' = [exits |-> {}, exit_sold |-> {}, cash |-> cash]
    /\ pc' = FirstStep
    /\ st_last' = [NoStep EXCEPT !.op = "next"]
    /\ UNCHANGED <<st, pending, rm, rm_last, overrides, day, ledgerVars, thrustVars>>

\* BaseStrategy.check_exit_signals, one feed of its loop.
check_exit_signals_loop ==
    /\ pc.phase = "exits"
    /\ LET name == datas[pc.i]
           size == broker.position[name]
       IN  \E factor \in VolatilityFactors :
              LET exit == ExitCondition(st, name, size, close[name])
                  sold == IF exit
                          THEN SellPosition(st, name, size, close[name], factor)
                          ELSE 0
              IN  /\ pending' = Submit(pending, name, FALSE, sold)
                  /\ st_last' = [NoStep EXCEPT !.op = "check_exit_signals", !.symbol = name,
                                               !.sell_cond[name] = exit,
                                               !.sold[name] = Abs(sold)]
                  /\ in_next' = [in_next EXCEPT !.exits = @ \cup {name},
                                        !.exit_sold = IF sold # 0 THEN @ \cup {name} ELSE @]
    /\ pc' = IF pc.i < Len(datas) THEN At("exits", pc.i + 1) ELSE AfterExits(st.cls, clock)
    /\ UNCHANGED <<st, clock, riskVars, ledgerVars, thrustVars>>

\* MACDRSIStrategy.next, one feed of its loop.
macd_rsi_loop ==
    /\ pc.phase = "signals"
    /\ st.cls = "MACDRSIStrategy"
    /\ LET name == datas[pc.i]
           size == broker.position[name]
       IN  \E previous_gap \in MacdGaps, gap \in MacdGaps, rsi \in RsiReadings,
              answer \in SizeAnswers, factor \in VolatilityFactors :
              LET buy_condition == MacdBuyCondition(previous_gap, gap, rsi)
                  sell_condition == MacdSellCondition(previous_gap, gap, rsi)
                  d == MacdRsiDecision(st, name, size, buy_condition, sell_condition,
                                       answer, close[name], factor)
              IN  /\ pending' = Submit(Submit(pending, name, TRUE, d.bought),
                                       name, FALSE, d.sold)
                  /\ st_last' = [NoStep EXCEPT !.op = "signals", !.symbol = name,
                                               !.buy_cond[name] = buy_condition,
                                               !.sell_cond[name] = sell_condition,
                                               !.bought[name] = d.bought,
                                               !.sold[name] = Abs(d.sold)]
    /\ pc' = AfterFeed("signals", pc.i)
    /\ UNCHANGED <<st, clock, in_next, riskVars, ledgerVars, thrustVars>>

\* DualThrustStrategy.next, one feed of its loop.
dual_thrust_loop ==
    /\ pc.phase = "signals"
    /\ st.cls = "DualThrustStrategy"
    /\ LET name == datas[pc.i]
           size == broker.position[name]
       IN  \E bar \in DualThrustBars, answer \in SizeAnswers,
              factor \in VolatilityFactors :
              LET d == DualThrustDecision(st, name, size, bar, answer, close[name],
                                          factor)
              IN  /\ pending' = Submit(Submit(pending, name, TRUE, d.bought),
                                       name, FALSE, d.sold)
                  /\ st_last' = [NoStep EXCEPT !.op = "signals", !.symbol = name,
                                               !.buy_cond[name] = DualThrustBuyCondition(bar),
                                               !.sell_cond[name] = DualThrustSellCondition(bar),
                                               !.bought[name] = d.bought,
                                               !.sold[name] = Abs(d.sold)]
    /\ pc' = AfterFeed("signals", pc.i)
    /\ UNCHANGED <<st, clock, in_next, riskVars, ledgerVars, thrustVars>>

\* DCAStrategy.next, one feed of its loop.
dca_loop ==
    /\ pc.phase = "signals"
    /\ st.cls = "DCAStrategy"
    /\ LET name == datas[pc.i]
           date == [month |-> clock.month, day |-> clock.day]
       IN  \E max_size \in SizeAnswers :
              LET buy_size == DcaBuySize(st, name, date, broker.cash, close[name],
                                         max_size)
              IN  /\ pending' = Submit(pending, name, TRUE, buy_size)
                  /\ st' = IF buy_size > 0
                           THEN [st EXCEPT !.orders = DictSet(@, name, TRUE),
                                           !.last_invest_dates = DictSet(@, name, date)]
                           ELSE st
                  /\ st_last' = [NoStep EXCEPT !.op = "signals", !.symbol = name,
                                               !.max_size =
                                                   IF /\ ~OrdersGet(st, name)
                                                      /\ IsInvestDay(st, name, date)
                                                      /\ broker.cash > 0
                                                   THEN max_size
                                                   ELSE 0,
                                               !.buy_cond[name] = IsInvestDay(st, name, date),
                                               !.bought[name] = buy_size]
    /\ pc' = AfterFeed("signals", pc.i)
    /\ UNCHANGED <<clock, in_next, riskVars, ledgerVars, thrustVars>>

\* What SMACrossoverStrategy.next does with one feed: r holds the strategy
\* object, the orders at the broker and the record of the step.  The slot
\* self.orders[name] takes what buy or sell returns, None for a size of 0.
SmaTrade(r, name, size, crossover, answer) ==
    LET d == SmaDecision(r.st, name, size, crossover, answer)
        called == (size = 0 /\ crossover = 1) \/ (size # 0 /\ crossover = -1)
    IN  [ st |-> IF called
                 THEN [r.st EXCEPT !.orders = DictSet(@, name, d.bought # 0 \/ d.sold # 0)]
                 ELSE r.st,
          pending |-> Submit(Submit(r.pending, name, TRUE, d.bought), name, FALSE, d.sold),
          last |-> [r.last EXCEPT !.buy_cond[name] = (crossover = 1),
                                  !.sell_cond[name] = (crossover = -1),
                                  !.bought[name] = d.bought,
                                  !.sold[name] = Abs(d.sold)] ]

\* The loop over all feeds that next() runs when there is no best stock.
RECURSIVE SmaLoop(_, _, _, _, _)
SmaLoop(r, i, position, reading, answer) ==
    IF i > Len(datas) THEN r
    ELSE LET name == datas[i]
             r1 == IF OrdersGet(r.st, name) THEN r
                   ELSE SmaTrade(r, name, position[name], reading[name].crossover,
                                 answer[name])
         IN  SmaLoop(r1, i + 1, position, reading, answer)

\* SMACrossoverStrategy.next after super().next(): select_best_stock, then the
\* best stock alone or the loop over all feeds.
sma_crossover_signals ==
    /\ pc.phase = "signals"
    /\ st.cls = "SMACrossoverStrategy"
    /\ \E reading \in [Symbols -> SmaReadings], answer \in [Symbols -> SizeAnswers] :
          LET r0 == [st |-> st, pending |-> pending,
                     last |-> [NoStep EXCEPT !.op = "signals"]]
              candidates == SmaCandidates(st, broker.position, reading)
          IN  \E r \in IF candidates # {}
                       THEN { SmaTrade(r0, best_stock, broker.position[best_stock],
                                       reading[best_stock].crossover, answer[best_stock]) :
                                  best_stock \in candidates }
                       ELSE { SmaLoop(r0, 1, broker.position, reading, answer) } :
                  /\ st' = r.st
                  /\ pending' = r.pending
                  /\ st_last' = r.last
    /\ pc' = Idle
    /\ UNCHANGED <<clock, in_next, riskVars, ledgerVars, thrustVars>>

\* The broker notifies an order: BaseStrategy.notify_order.  The broker works
\* through its orders in the order of submission, and a completed order has
\* been applied to the position before the strategy hears of it.
notify_order ==
    /\ pc = Idle
    /\ pending # <<>>
    /\ \E status \in Statuses, price \in FillPrices :
          LET o == Head(pending)
          IN  /\ st' = NotifyOrder(st, o, status, price)
              /\ broker' = IF status = "Completed" THEN Fill(broker, o) ELSE broker
              /\ pending' = IF status \in {"Submitted", "Accepted"} THEN pending
                            ELSE Tail(pending)
              /\ st_last' = [NoStep EXCEPT !.op = "notify_order", !.symbol = o.symbol]
    /\ UNCHANGED <<pc, clock, in_next, close, rm, rm_last, overrides, day, ledgerVars, thrustVars>>

NextStrategy ==
    \/ next_bar
    \/ check_exit_signals_loop
    \/ macd_rsi_loop
    \/ dual_thrust_loop
    \/ dca_loop
    \/ sma_crossover_signals
    \/ notify_order

SpecStrategy == InitStrategy /\ [][NextStrategy]_vars

----------------------------------------------------------------------------
(* The long/short DualThrustStrategy as a state machine: backtrader calls    *)
(* next() on every bar, and between two bars the broker notifies the order   *)
(* the strategy sent: a market order is filled near the close it was sent on *)
(* or, when it is a purchase, refused for want of cash.                      *)

InitDualThrust ==
    /\ ThrustIdle
    /\ LedgerIdle
    /\ RiskIdle
    /\ StrategyIdle

\* DualThrustStrategy.next on the next bar of the day
thrust_next ==
    /\ dt.bars < MaxThrustBars
    /\ \E bar \in ThrustBars, size \in ThrustSizes, start \in ThrustStarts :
          LET time == IF dt.bars = 0 THEN start ELSE dt.time + BarMinutes
              lines == NewDayLines(dt.s, 1)
              out == DualThrustNext(dt.s, dt.position, time, bar, size)
          IN  /\ dt' = [dt EXCEPT !.s = out.s,
                                  !.at_broker = IF out.sent # None THEN out.sent ELSE @,
                                  !.time = time,
                                  !.bars = @ + 1]
              /\ dt_last' =
                    [op |-> "next",
                     skipped |-> ThrustSkips(lines, time),
                     crossed |-> \/ dt.position.size > 0 /\ LongStopCrossed(dt.position, bar)
                                 \/ dt.position.size < 0 /\ ShortStopCrossed(dt.position, bar),
                     pending |-> dt.s.order # None,
                     sent |-> IF out.sent = None THEN "none" ELSE ValueOf(out.sent).kind,
                     recent |-> LastThree(Append(dt_last.recent, EntrySignal(lines, bar))),
                     best |-> IF dt.position.size # 0
                              THEN BestClose(dt.position, dt_last.best, bar.close)
                              ELSE None]
    /\ UNCHANGED <<riskVars, ledgerVars, strategyVars>>

\* DualThrustStrategy.notify_order, as the broker calls it for the order sent
thrust_notify_order ==
    /\ dt.at_broker # None
    /\ LET order == ValueOf(dt.at_broker)
       IN  \E status \in {"Accepted", "Completed", "Margin"}, slippage \in Slippages :
              /\ status = "Margin" => order.kind = "buy"
              /\ LET position == IF status = "Completed"
                                 THEN ThrustFill(dt.position, order, order.ref + slippage)
                                 ELSE dt.position
                 IN  /\ dt' = [dt EXCEPT !.s = DualThrustNotifyOrder(@, status),
                                         !.position = position,
                                         !.at_broker = IF status = "Accepted" THEN @ ELSE None]
                     /\ dt_last' = [dt_last EXCEPT
                                       !.op = "notify_order",
                                       !.sent = "none",
                                       !.best = IF position.size = 0 THEN None
                                                ELSE IF dt.position.size = 0
                                                THEN Some(position.price)
                                                ELSE @]
    /\ UNCHANGED <<riskVars, ledgerVars, strategyVars>>

NextDualThrust ==
    \/ thrust_next
    \/ thrust_notify_order

SpecDualThrust == InitDualThrust /\ [][NextDualThrust]_vars

----------------------------------------------------------------------------
(* Claims about the sizing of positions, under SpecSizing *)

\* C1: cash committed to new positions earlier in the same day is not
\* available to later sizing decisions: between two reset_daily_cash calls the
\* sizes handed out by get_position_size never cost more in total than the
\* broker's cash (cash 10000, price 100: 100 shares, then 0 shares).
C1_DailyCashNotDoubleSpent == day.cost <= broker.cash

\* C5: get_position_size returns 0 when the remaining allocation
\* value x max_position_size - positions is <= 0, otherwise
\* floor(min(cash, remaining allocation) / price); the result is >= 0 and, when
\* shares are handed out, their cost exceeds neither the remaining allocation
\* nor the cash.
C5_PositionSizeWithinAllocationAndCash ==
    rm_last.op = "get_position_size" =>
        LET price == close[rm_last.symbol]
            size == rm_last.size
            positions == broker.position["A"] * close["A"]
                         + broker.position["B"] * close["B"]
            remaining == broker.value * rm.max_position_size - positions * 100
            usable == Min(broker.cash * 100, remaining)
        IN  /\ size \in Nat
            /\ remaining <= 0 => size = 0
            /\ remaining > 0 =>
                  /\ size * price * 100 <= usable
                  /\ usable < (size + 1) * price * 100
            /\ size > 0 =>
                  /\ size * price * 100 <= remaining
                  /\ size * price <= broker.cash

\* C5 witness: value 100000, fraction 0.3, positions worth 29000, price 10 and
\* cash 50000 give 100 shares.
C5_Witness ==
    /\ rm_last.op = "get_position_size"
    /\ broker.value = 100000
    /\ rm.max_position_size = 30
    /\ TotalPositionValue(broker, close) = 29000
    /\ close[rm_last.symbol] = 10
    /\ broker.cash = 50000
    /\ rm_last.size = 100

----------------------------------------------------------------------------
(* Claims about the exit signals, under SpecRisk *)

\* C4: stop-loss is checked before take-profit: whenever the price of a
\* check_exit_signals call is at or below the stop-loss price of a tracked
\* symbol, the result is (True, 'stop_loss'), also when the price is at or
\* above the take-profit price, whatever rsi and volume_ratio are.
C4_StopLossBeforeTakeProfit ==
    (/\ rm_last.op = "check_exit_signals"
     /\ rm_last.tracked
     /\ rm_last.current_price * 100 <= rm.positions[rm_last.symbol].stop_loss_price)
    => rm_last.result = [exit |-> TRUE, type |-> "stop_loss"]

\* C4 witness: both thresholds are crossed by the price of the call, with rsi
\* and volume_ratio given, and the call answers stop_loss.
C4_Witness ==
    /\ rm_last.op = "check_exit_signals"
    /\ rm_last.tracked
    /\ rm_last.rsi # None
    /\ rm_last.volume_ratio # None
    /\ rm_last.current_price * 100 <= rm.positions[rm_last.symbol].stop_loss_price
    /\ rm_last.current_price * 100 >= rm.positions[rm_last.symbol].take_profit_price
    /\ rm_last.result = [exit |-> TRUE, type |-> "stop_loss"]

\* The thresholds add_position writes for an entry price.
BaselineStopLoss(r, entry_price) == entry_price * (100 - r.stop_loss_pct)

BaselineTakeProfit(r, entry_price) == entry_price * (100 + r.base_take_profit_pct)

\* C12: on a check_exit_signals call that does not stop out, the take-profit
\* threshold tested is the one of that call: entry_price * (1 + take_profit_pct
\* + trend bonus) when rsi and volume_ratio are supplied and indicate strength,
\* entry_price * (1 + take_profit_pct) when they do not or are not supplied,
\* and the call answers take_profit iff the price is at or above it.  A
\* supplied volume_ratio counts as a surge (the manager holds no multiplier),
\* and symbols whose thresholds were overridden are left aside.
C12_TakeProfitRecomputedEachCall ==
    (/\ rm_last.op = "check_exit_signals"
     /\ rm_last.tracked
     /\ rm_last.symbol \notin overridden
     /\ rm_last.result.type # "stop_loss")
    => LET position == rm.positions[rm_last.symbol]
           strong == /\ rm_last.rsi # None
                     /\ rm_last.volume_ratio # None
                     /\ ValueOf(rm_last.rsi) > rm.rsi_threshold
           bonus == IF strong THEN rm.trend_bonus ELSE 0
           threshold == position.entry_price * (100 + rm.base_take_profit_pct + bonus)
       IN  (rm_last.result = [exit |-> TRUE, type |-> "take_profit"])
               <=> (rm_last.current_price * 100 >= threshold)

\* C21: a RiskManager with a negative stop_loss_pct or take_profit_pct, or
\* with a max_position_size of zero, is rejected at construction: no manager
\* with such a configuration ever answers a call.
C21_InvalidConfigurationRejected ==
    rm_last.op # "none" =>
        /\ rm.stop_loss_pct >= 0
        /\ rm.base_take_profit_pct >= 0
        /\ rm.max_position_size # 0

\* C24: an override written by update_position_params stays in force until
\* the symbol is removed or added again: a check_exit_signals call for the
\* symbol, with or without rsi and volume_ratio, tests the price against the
\* overridden thresholds and leaves them in the record.
C24_OverrideStaysInForce ==
    (/\ rm_last.op = "check_exit_signals"
     /\ rm_last.tracked
     /\ rm_last.symbol \in DOMAIN overrides)
    => LET override == overrides[rm_last.symbol]
           position == rm.positions[rm_last.symbol]
           price == rm_last.current_price * 100
           stopped == rm_last.result = [exit |-> TRUE, type |-> "stop_loss"]
           taken == rm_last.result = [exit |-> TRUE, type |-> "take_profit"]
       IN  /\ override.stop_loss_price # None =>
                 /\ position.stop_loss_price = ValueOf(override.stop_loss_price)
                 /\ stopped <=> price <= ValueOf(override.stop_loss_price)
           /\ override.take_profit_price # None =>
                 /\ position.take_profit_price = ValueOf(override.take_profit_price)
                 /\ ~stopped =>
                        (taken <=> price >= ValueOf(override.take_profit_price))

\* C18: for an untracked symbol check_exit_signals answers (False, None) and
\* remove_position does nothing: the manager is left as it was; a
\* remove_position of a tracked symbol takes the symbol out and leaves the
\* records of the other symbols and the daily cash counter alone, so that a
\* second remove_position leaves the state of the first.
C18_UntrackedSymbolIsNoOp ==
    [][/\ (rm_last'.op = "check_exit_signals" /\ ~rm_last'.tracked) =>
            /\ rm_last'.result = [exit |-> FALSE, type |-> "None"]
            /\ rm' = rm
       /\ (rm_last'.op = "remove_position" /\ ~rm_last'.tracked) => rm' = rm
       /\ rm_last'.op = "remove_position" =>
            /\ DOMAIN rm'.positions = DOMAIN rm.positions \ {rm_last'.symbol}
            /\ \A s \in DOMAIN rm'.positions : rm'.positions[s] = rm.positions[s]
            /\ rm'.today_used_cash = rm.today_used_cash
            /\ RemovePosition(rm', rm_last'.symbol) = rm']_vars

\* C18 witness: remove_position was called for a symbol that is not tracked
\* while the other symbol is, with its take-profit price raised by a call of
\* check_exit_signals.
C18_Witness ==
    /\ rm_last.op = "remove_position"
    /\ ~rm_last.tracked
    /\ \E s \in DOMAIN rm.positions :
          /\ s # rm_last.symbol
          /\ rm.positions[s].take_profit_price >
                 BaselineTakeProfit(rm, rm.positions[s].entry_price)

\* C13: add_position(symbol, p) writes the record with stop_loss_price =
\* p * (1 - stop_loss_pct) and take_profit_price = p * (1 + take_profit_pct)
\* for the symbol, replacing an earlier record and leaving the other symbols
\* alone; and a symbol whose thresholds update_position_params has not
\* written keeps that stop_loss_price and a take_profit_price at or above that
\* baseline through every call.
C13_BaselineThresholds ==
    [][/\ rm_last'.op = "add_position" =>
            /\ DOMAIN rm'.positions = DOMAIN rm.positions \cup {rm_last'.symbol}
            /\ \A s \in DOMAIN rm.positions \ {rm_last'.symbol} :
                    rm'.positions[s] = rm.positions[s]
            /\ rm'.positions[rm_last'.symbol] =
                    [entry_price |-> rm_last'.entry_price,
                     stop_loss_price |->
                         BaselineStopLoss(rm, rm_last'.entry_price),
                     take_profit_price |->
                         BaselineTakeProfit(rm, rm_last'.entry_price)]
       /\ \A s \in DOMAIN rm'.positions \ overridden' :
            LET position == rm'.positions[s]
            IN  /\ position.stop_loss_price =
                       BaselineStopLoss(rm', position.entry_price)
                /\ position.take_profit_price >=
                       BaselineTakeProfit(rm', position.entry_price)]_vars

\* C13 witness: a check_exit_signals call has raised the take-profit price of
\* a symbol above its baseline, the symbol's thresholds were never overridden,
\* and its stop-loss price is the one add_position wrote.
C13_Witness ==
    /\ rm_last.op = "check_exit_signals"
    /\ rm_last.tracked
    /\ rm_last.symbol \notin overridden
    /\ LET position == rm.positions[rm_last.symbol]
       IN  /\ position.take_profit_price >
                  BaselineTakeProfit(rm, position.entry_price)
           /\ position.stop_loss_price =
                  BaselineStopLoss(rm, position.entry_price)

----------------------------------------------------------------------------
(* Recomputation of the ledger from its trade log *)

RECURSIVE SumOf(_, _)
SumOf(F(_), log) == IF log = <<>> THEN 0 ELSE F(Head(log)) + SumOf(F, Tail(log))

RECURSIVE LargestOf(_, _, _)
LargestOf(F(_), log, least) ==
    IF log = <<>> THEN least ELSE Max(F(Head(log)), LargestOf(F, Tail(log), least))

RECURSIVE SmallestOf(_, _, _)
SmallestOf(F(_), log, most) ==
    IF log = <<>> THEN most ELSE Min(F(Head(log)), SmallestOf(F, Tail(log), most))

PnlOf(r) == r.pnl

CommissionOf(r) == r.commission

WonOf(r) == IF r.pnl > 0 THEN 1 ELSE 0

LostOf(r) == IF r.pnl > 0 THEN 0 ELSE 1

\* The records of one symbol, in log order.
LogOf(log, symbol) == SelectSeq(log, LAMBDA r : r.symbol = symbol)

LogSymbols(log) == {log[i].symbol : i \in DOMAIN log}

\* A fresh ledger into which each record of the log is replayed, in log order,
\* as one entry followed by one exit.
RECURSIVE Replay(_, _)
Replay(o, log) ==
    IF log = <<>> THEN o
    ELSE LET r == Head(log)
             entered == OnTradeEntry(o, r.symbol, r.entry_time, r.entry_price,
                                     r.size, r.direction, r.commission)
         IN  Replay(OnTradeExit(entered, r.symbol, r.exit_time, r.exit_price, 0,
                                r.exit_type),
                    Tail(log))

----------------------------------------------------------------------------
(* Claims about the ledger, under SpecLedger *)

\* C2: whenever a trade has been closed, get_metrics()['win_rate'] is
\* winning / total x 100 over all closed trades of all symbols.
C2_WinRateOverAllTrades ==
    om.trades # <<>> =>
        GetMetrics(om).win_rate = Frac(SumOf(WonOf, om.trades) * 100, Len(om.trades))

\* C3: get_metrics() of the ledger equals get_metrics() of a fresh ledger into
\* which the trade log is replayed, in every field of the snapshot.
C3_ReplayReproducesMetrics ==
    GetMetrics(om) = GetMetrics(Replay(OrderMetricInit, om.trades))

\* C6: the running aggregates equal a recomputation from the trade log, overall
\* and for each symbol over the records of that symbol.
C6_AggregatesMatchLog ==
    /\ om.total_trades = Len(om.trades)
    /\ Len(om.holding_periods) = Len(om.trades)
    /\ om.total_pnl = SumOf(PnlOf, om.trades)
    /\ om.total_commission = SumOf(CommissionOf, om.trades)
    /\ om.max_profit = LargestOf(PnlOf, om.trades, 0)
    /\ om.max_loss = SmallestOf(PnlOf, om.trades, 0)
    /\ DOMAIN om.stock_stats = LogSymbols(om.trades)
    /\ \A s \in DOMAIN om.stock_stats :
          LET log == LogOf(om.trades, s)
              stats == om.stock_stats[s]
          IN  /\ stats.total_trades = Len(log)
              /\ stats.total_pnl = SumOf(PnlOf, log)
              /\ stats.total_commission = SumOf(CommissionOf, log)
              /\ stats.max_profit = LargestOf(PnlOf, log, 0)
              /\ stats.max_loss = SmallestOf(PnlOf, log, 0)

\* C6 witness: two closed trades, one with a profit and one with a loss, and a
\* commission paid.
C6_Witness ==
    /\ Len(om.trades) = 2
    /\ om.max_profit > 0
    /\ om.max_loss < 0
    /\ om.total_commission > 0

\* C7: a closed trade is winning iff pnl > 0 and losing otherwise (pnl = 0 is a
\* loss), and winning + losing = total, overall and for each symbol.
C7_WinLossClassification ==
    /\ om.winning_trades = SumOf(WonOf, om.trades)
    /\ om.losing_trades = SumOf(LostOf, om.trades)
    /\ om.winning_trades + om.losing_trades = om.total_trades
    /\ \A s \in DOMAIN om.stock_stats :
          LET log == LogOf(om.trades, s)
              stats == om.stock_stats[s]
          IN  /\ stats.winning_trades = SumOf(WonOf, log)
              /\ stats.losing_trades = SumOf(LostOf, log)
              /\ stats.winning_trades + stats.losing_trades = stats.total_trades

\* C7 witness: the only closed trade was entered at 100, left at 100 without
\* commission, so its pnl is 0, and it is counted as a loss.
C7_Witness ==
    /\ Len(om.trades) = 1
    /\ om.trades[1].entry_price = 100
    /\ om.trades[1].exit_price = 100
    /\ om.trades[1].commission = 0
    /\ om.trades[1].pnl = 0
    /\ om.losing_trades = 1
    /\ om.winning_trades = 0

C15_ExitWithoutActiveTradeIsNoOp ==
    [][(om_last'.op = "on_trade_exit" /\ ~om_last'.active) => om' = om]_vars

\* C15 witness: the ledger holds a closed trade and an active one, and the last
\* call was an exit, of a type outside the histogram and with a commission,
\* for a symbol without an active trade.
C15_Witness ==
    /\ om_last.op = "on_trade_exit"
    /\ ~om_last.active
    /\ om_last.call.exit_type = "manual"
    /\ om_last.call.commission > 0
    /\ om.trades # <<>>
    /\ DOMAIN om.active_trades # {}

\* C16: the trade log is append-only: a step keeps the records of the log in
\* place; an on_trade_exit of a symbol with an active trade appends exactly
\* one record, the active trade with the exit fields of the call, and takes
\* the symbol out of active_trades; every other call leaves the log alone.
C16_TradeLogAppendOnly ==
    [][/\ Len(om'.trades) >= Len(om.trades)
       /\ SubSeq(om'.trades, 1, Len(om.trades)) = om.trades
       /\ IF om_last'.op = "on_trade_exit" /\ om_last'.active
          THEN LET symbol == om_last'.symbol
                   call == om_last'.call
                   entered == om.active_trades[symbol]
                   record == om'.trades[Len(om'.trades)]
               IN  /\ Len(om'.trades) = Len(om.trades) + 1
                   /\ record.symbol = symbol
                   /\ record.entry_time = entered.entry_time
                   /\ record.entry_price = entered.entry_price
                   /\ record.size = entered.size
                   /\ record.direction = entered.direction
                   /\ record.exit_time = call.exit_time
                   /\ record.exit_price = call.exit_price
                   /\ record.exit_type = call.exit_type
                   /\ symbol \notin DOMAIN om'.active_trades
          ELSE om'.trades = om.trades]_vars

\* C16 witness: the log holds two records of one symbol, closed by two exits,
\* and the symbol has been entered again.
C16_Witness ==
    /\ Len(om.trades) = 2
    /\ om.trades[1].symbol = om.trades[2].symbol
    /\ om.trades[1] # om.trades[2]
    /\ om_last.op = "on_trade_entry"
    /\ om_last.symbol = om.trades[1].symbol

\* C17: on_trade_exit sets the record's commission to the entry commission
\* plus the exit commission, and its pnl to (exit_price - entry_price) * size
\* less that commission for a long trade, (entry_price - exit_price) * size
\* less that commission for a short one.
C17_CommissionAndPnl ==
    [][(om_last'.op = "on_trade_exit" /\ om_last'.active) =>
          LET call == om_last'.call
              entered == om.active_trades[om_last'.symbol]
              record == om'.trades[Len(om'.trades)]
              cumulative == entered.commission + call.commission
          IN  /\ record.commission = cumulative
              /\ entered.direction = "buy" =>
                     record.pnl = (call.exit_price - entered.entry_price)
                                      * entered.size - cumulative
              /\ entered.direction = "sell" =>
                     record.pnl = (entered.entry_price - call.exit_price)
                                      * entered.size - cumulative]_vars

\* C17 witness: a short trade of 2 shares entered at 100 with commission 1 was
\* closed at 110 with commission 1: commission 2, pnl (100 - 110) * 2 - 2.
C17_Witness ==
    /\ om_last.op = "on_trade_exit"
    /\ om_last.active
    /\ LET record == om.trades[Len(om.trades)]
       IN  /\ record.direction = "sell"
           /\ record.entry_price = 100
           /\ record.exit_price = 110
           /\ record.size = 2
           /\ record.commission = 2
           /\ record.pnl = -22

\* C19: get_metrics never divides by zero: without a closed trade it returns
\* total_trades 0, win_rate 0.0 and avg_holding_period 0.0; with a closed
\* trade the denominators it uses (total_trades, len(holding_periods), every
\* symbol's total_trades) are positive.
C19_NoDivisionByZero ==
    IF Len(om.trades) = 0
    THEN /\ GetMetrics(om).total_trades = 0
         /\ GetMetrics(om).win_rate = FracZero
         /\ GetMetrics(om).avg_holding_period = FracZero
    ELSE /\ om.total_trades > 0
         /\ Len(om.holding_periods) > 0
         /\ \A s \in DOMAIN om.stock_stats : om.stock_stats[s].total_trades > 0

\* C19 witness: both symbols have a closed trade, and one is entered again.
C19_Witness ==
    /\ DOMAIN om.stock_stats = Symbols
    /\ DOMAIN om.active_trades # {}
    /\ GetMetrics(om).total_trades = 2

\* C20: the holding period appended by on_trade_exit is the number of whole
\* days from entry_time to exit_time, the fraction of a day dropped: 36 hours
\* give 1, less than 24 hours give 0.
C20_HoldingPeriodFloors ==
    (om_last.op = "on_trade_exit" /\ om_last.active) =>
        LET record == om.trades[Len(om.trades)]
            hours == record.exit_time - record.entry_time
            holding_days == om.holding_periods[Len(om.holding_periods)]
        IN  /\ Len(om.holding_periods) = Len(om.trades)
            /\ holding_days * HoursPerDay <= hours
            /\ hours < (holding_days + 1) * HoursPerDay
            /\ hours = 36 => holding_days = 1
            /\ (0 <= hours /\ hours < 24) => holding_days = 0

\* C20 witness: a trade closed 36 hours after its entry after one closed 20
\* hours after its entry: holding periods 0 and 1.
C20_Witness ==
    /\ om_last.op = "on_trade_exit"
    /\ om_last.active
    /\ Len(om.trades) = 2
    /\ om.trades[1].exit_time - om.trades[1].entry_time = 20
    /\ om.trades[2].exit_time - om.trades[2].entry_time = 36
    /\ om.holding_periods = <<0, 1>>

\* The number of log records that carry an exit type.
RecordsOfType(exit_type) ==
    Cardinality({ k \in 1..Len(om.trades) : om.trades[k].exit_type = exit_type })

\* C27: every on_trade_exit that closes a trade is counted in the exit-type
\* histogram: the counts of exit_types sum to total_trades, and each bucket is
\* the number of log records of its exit type, whatever exit types the
\* callers passed.
C27_HistogramCountsEveryExit ==
    /\ om.exit_types["stop_loss"] + om.exit_types["take_profit"]
           + om.exit_types["signal"] = om.total_trades
    /\ \A t \in DOMAIN om.exit_types : om.exit_types[t] = RecordsOfType(t)
    /\ \A k \in 1..Len(om.trades) : om.trades[k].exit_type \in DOMAIN om.exit_types

----------------------------------------------------------------------------
(* Claims about the strategies, under SpecStrategy *)

\* The orders that a step adds at the broker.
NewOrders == { pending'[k] : k \in (Len(pending) + 1)..Len(pending') }

\* The orders at the broker for one symbol.
InFlight(name) == { k \in 1..Len(pending) : pending[k].symbol = name }

\* C8, as claimed: no strategy, DCAStrategy included, submits a buy order for
\* a symbol whose position is open.
C8_NoBuyIntoOpenPosition ==
    [][\A o \in NewOrders : o.isbuy => broker.position[o.symbol] = 0]_vars

\* C8, amended: MACDRSIStrategy, SMACrossoverStrategy and DualThrustStrategy
\* submit a buy order for a symbol only while its position is flat, so an
\* entry signal for an open position is ignored; DCAStrategy is not bound by
\* this, it buys on its invest days whatever the position.
C8_NoBuyIntoOpenPositionButDca ==
    [][st.cls # "DCAStrategy" =>
          \A o \in NewOrders : o.isbuy => broker.position[o.symbol] = 0]_vars

\* MACDRSIStrategy saw its buy condition for a symbol with an open position,
\* and bought nothing.
C8_Witness ==
    /\ st.cls = "MACDRSIStrategy"
    /\ st_last.op = "signals"
    /\ \E name \in Symbols :
          /\ st_last.buy_cond[name]
          /\ broker.position[name] > 0
          /\ st_last.bought[name] = 0

\* C9: at most one order per symbol is in flight at any point of a run.
C9_OneOrderPerSymbolInFlight ==
    \A name \in Symbols : Cardinality(InFlight(name)) <= 1

\* C10: after every order notification, a symbol whose position is nonzero
\* has a tracked entry price.
C10_OpenPositionHasEntryPrice ==
    st_last.op = "notify_order" =>
        \A name \in Symbols :
            broker.position[name] # 0 => name \in DOMAIN st.entry_prices

\* The feeds of the strategy.
Feeds == { datas[i] : i \in 1..Len(datas) }

\* C11: a buy order is submitted only after check_exit_signals has evaluated
\* every feed in the same call of next(), and while the broker still holds
\* the cash it held when next() began: no sell of the bar has been paid out.
C11_ExitsBeforeEntries ==
    [][(\E o \in NewOrders : o.isbuy) => (in_next.exits = Feeds /\ broker.cash = in_next.cash)]_vars

\* A bar in which check_exit_signals sold one symbol and the signals of the
\* strategy then bought another.
C11_Witness ==
    /\ st_last.op = "signals"
    /\ \E name \in Symbols : st_last.bought[name] > 0 /\ in_next.exit_sold \ {name} # {}
    /\ in_next.exits = Feeds
    /\ broker.cash = in_next.cash

\* The shares of a symbol on sale: the sizes of its sell orders at the broker.
OnSale(name) ==
    LET Sold(o) == IF o.symbol = name /\ ~o.isbuy THEN o.size ELSE 0
    IN  SumOf(Sold, pending)

\* C22: the sell orders of a symbol that are at the broker together never sell
\* more than the symbol's open quantity, so that no position goes below zero.
C22_SellsWithinOpenQuantity ==
    \A name \in Symbols :
        /\ broker.position[name] >= 0
        /\ OnSale(name) <= broker.position[name]

\* C23: in MACDRSIStrategy and DualThrustStrategy, on every bar on which a
\* symbol has an open position and the strategy's sell condition holds for it,
\* the loop submits a sell order of at least one share.
C23_OpenPositionCanBeSold ==
    (/\ st.cls \in {"MACDRSIStrategy", "DualThrustStrategy"}
     /\ st_last.op = "signals"
     /\ broker.position[st_last.symbol] > 0
     /\ st_last.sell_cond[st_last.symbol])
    => st_last.sold[st_last.symbol] >= 1

\* C28: the size DCAStrategy buys on a bar never exceeds the position size the
\* risk manager allows for that bar, nor the shares that min(invest_amount,
\* available cash) pays for at the close; when the risk manager allows 0
\* shares, nothing is bought.
C28_BuySizeWithinRiskLimit ==
    (st.cls = "DCAStrategy" /\ st_last.op = "signals") =>
        LET name == st_last.symbol
            buy_size == st_last.bought[name]
        IN  /\ buy_size <= st_last.max_size
            /\ buy_size * close[name] <= Min(invest_amount, broker.cash)

\* C29: DCAStrategy buys a symbol at most once per calendar month: the first
\* purchase of a symbol happens on any bar, a later one in a month other than
\* that of the purchase before it and on a day of the month >= invest_date;
\* the date of a purchase is recorded, and a bar on which nothing is bought
\* leaves the record as it was, so that the month is not used up.
C29_OnePurchasePerMonth ==
    [][(st.cls = "DCAStrategy" /\ st_last'.op = "signals") =>
          LET name == st_last'.symbol
              date == [month |-> clock.month, day |-> clock.day]
              buys == { o \in NewOrders : o.isbuy /\ o.symbol = name }
          IN  /\ \A o \in NewOrders : o.isbuy /\ o.symbol = name
              /\ Len(pending') <= Len(pending) + 1
              /\ IF buys # {}
                 THEN /\ \/ name \notin DOMAIN st.last_invest_dates
                         \/ /\ date.month # st.last_invest_dates[name].month
                            /\ date.day >= st.invest_date
                      /\ st'.last_invest_dates =
                             DictSet(st.last_invest_dates, name, date)
                 ELSE st'.last_invest_dates = st.last_invest_dates]_vars

\* C29 witness: a symbol bought in one month, the purchase filled, is bought
\* again in the next month.
C29_Witness ==
    /\ st.cls = "DCAStrategy"
    /\ st_last.op = "signals"
    /\ clock.month = 1
    /\ LET name == st_last.symbol
       IN  /\ st_last.bought[name] > 0
           /\ broker.position[name] > 0
           /\ st.last_invest_dates[name].month = 1

----------------------------------------------------------------------------
(* Claims about the long/short DualThrustStrategy, under SpecDualThrust *)

\* C25: on every bar on which a position is open and the close has crossed
\* its fixed stop (long: close <= entry price - 3.5 x ATR; short: close >=
\* entry price + 3.5 x ATR), a closing order is submitted on that same bar
\* unless a closing order is already pending.
C25_FixedStopClosesSameBar ==
    (dt_last.op = "next" /\ dt_last.crossed /\ ~dt_last.pending)
        => dt_last.sent = "close"

\* C26: a position is opened only after the entry condition of that direction
\* has held on three consecutive bars: the order goes out on the third of
\* three bars in a row that meet the condition of its direction.
C26_ThreeConsecutiveBars ==
    (dt_last.op = "next" /\ dt_last.sent \in {"buy", "sell"})
        => dt_last.recent = <<dt_last.sent, dt_last.sent, dt_last.sent>>

\* C30: after a bar with no order in flight, the watermarks are None when no
\* position is open, highest_price is the best (highest) close since the
\* entry of a long, the entry price included, and lowest_price the best
\* (lowest) close since the entry of a short.
C30_WatermarkIsBestClose ==
    (dt_last.op = "next" /\ dt.s.order = None /\ dt.at_broker = None)
        => /\ dt.position.size = 0
                => dt.s.highest_price = None /\ dt.s.lowest_price = None
           /\ dt.position.size > 0 => dt.s.highest_price = dt_last.best
           /\ dt.position.size < 0 => dt.s.lowest_price = dt_last.best

====
